---- MODULE Spec2Model ----
(***************************************************************************)
(* The Trill I2C driver (Arduino/library/Trill/Trill.cpp) as a state       *)
(* machine: one Trill object, the Wire receive buffer it reads from, and   *)
(* a record of the bus traffic of the most recent call.                     *)
(*                                                                         *)
(* Trill.h and Wire.h are not among the sources.  The header's enum        *)
(* constants are therefore definitions of this module: the register        *)
(* offsets and opcodes are plain bytes, and the lengths are small values   *)
(* that keep the relations the code relies on (the scan frame holds        *)
(* kMaxTouchNum locations and kMaxTouchNum sizes of two bytes each and     *)
(* fits in one Wire transfer; the default raw length does not).            *)
(***************************************************************************)
EXTENDS Integers, Sequences, FiniteSets, TLC

(* ------------------------------ bounds -------------------------------- *)

\* Touch slots of a scan frame (kMaxTouchNum of Trill.h, scaled down).
MaxTouchSlots == 2
\* Bytes by which the Wire transfer limit exceeds the scan frame.
WireSlack == 1
\* Bytes by which the default raw length exceeds the Wire transfer limit.
RawOverflow == 2

(* ------------------------ header constants ---------------------------- *)

kMaxTouchNum == MaxTouchSlots
kNormalLengthDefault == 4 * kMaxTouchNum
BUFFER_LENGTH == kNormalLengthDefault + WireSlack
kRawLength1D == BUFFER_LENGTH - 1
kRawLengthDefault == BUFFER_LENGTH + RawOverflow
kRawLengthMax == kRawLengthDefault

kOffsetCommand == 0
kOffsetData == 4

kCommandMode == 1
kCommandScanSettings == 2
kCommandPrescaler == 3
kCommandNoiseThreshold == 4
kCommandIdac == 5
kCommandBaselineUpdate == 6
kCommandMinimumSize == 7
kCommandIdentify == 255

TRILL_DEVICE_NONE == 0
TRILL_DEVICE_1D == 1
TRILL_MODE_NORMAL == 0

\* The value the constructor gives mode_ and last_read_loc_, and the
\* "use the default" argument of requestRawData.
UNSET == 255

Byte == 0..255
\* lastWrite before any write transaction.
NoWrite == 0 - 1
Min(a, b) == IF a <= b THEN a ELSE b

(* ------------------------------ state --------------------------------- *)

VARIABLES
    device_type_,       \* Trill::device_type_
    firmware_version_,  \* Trill::firmware_version_
    mode_,              \* Trill::mode_
    last_read_loc_,     \* Trill::last_read_loc_
    num_touches_,       \* Trill::num_touches_
    raw_bytes_left_,    \* Trill::raw_bytes_left_
    buffer_,            \* Trill::buffer_, indexed from 0
    rxBuffer,           \* Wire's received bytes not yet read
    busLog,             \* bus transactions of the most recent call, in order
    lastWrite,          \* first byte of the most recent write transaction
    lastOp,             \* the most recent call
    lastArg,            \* its argument (requestRawData, setMode)
    lastRet,            \* its return value
    resolved            \* length resolved by the most recent requestRawData

vars == << device_type_, firmware_version_, mode_, last_read_loc_,
           num_touches_, raw_bytes_left_, buffer_, rxBuffer, busLog,
           lastWrite, lastOp, lastArg, lastRet, resolved >>

(* ------------------------------ the bus ------------------------------- *)

\* One write transaction: beginTransmission, write..., endTransmission.
WriteEv(bytes) == [k |-> "W", n |-> Len(bytes), bytes |-> bytes]
\* One Wire.requestFrom of n bytes, and the bytes the bus delivered.
ReqEv(n, data) == [k |-> "R", n |-> n, bytes |-> data]

Writes(log) == SelectSeq(log, LAMBDA e : e.k = "W")
Requests(log) == SelectSeq(log, LAMBDA e : e.k = "R")

\* First byte of the last write transaction of log, or prev when log has none.
SelectorAfter(log, prev) ==
    IF Writes(log) = << >> THEN prev
    ELSE Writes(log)[Len(Writes(log))].bytes[1]

\* A sequence of n bytes b.
Fill(b, n) == [i \in 1..n |-> b]

\* The prefixes of the sequences of S of at most n bytes: a device may
\* deliver all the bytes asked for, some of them, or none.
Prefixes(S, n) == { SubSeq(s, 1, d) : s \in S, d \in 0..n }

\* What Wire.requestFrom(n) may leave in the receive buffer when the device
\* holds one of the sequences of S: Wire never receives more than
\* BUFFER_LENGTH bytes in one transfer.
Deliveries(S, n) == Prefixes(S, Min(n, BUFFER_LENGTH))

\* Responses of the device to the identify command: type, firmware version.
IdReplies == { << TRILL_DEVICE_1D, 3 >>, << TRILL_DEVICE_1D + 1, 1 >> }

\* Raw channel data: every byte of a transfer the same.
RawFills == { 1 }
RawData == { Fill(b, BUFFER_LENGTH) : b \in RawFills }

\* Scan frames whose location bytes are drawn from locs and whose size
\* bytes all equal one byte of sizes.
ScanFrames(locs, sizes) ==
    { l \o Fill(s, 2 * kMaxTouchNum) :
        l \in [1..(2 * kMaxTouchNum) -> locs], s \in sizes }

\* The frames of the full driver specification, and of the scan one.
FewFrames == { << 0, 0 >> \o Fill(255, 2 * kMaxTouchNum - 2)
                  \o Fill(1, 2 * kMaxTouchNum) }
AllFrames == ScanFrames({0, 255}, {1, 2})
\* Frames the scan specification also delivers in part.
CutFrames == FewFrames \cup { Fill(255, kNormalLengthDefault) }

\* What a request for a scan frame may deliver: a frame of FewFrames or any
\* part of it; and a frame of CutFrames or any part of it, or any whole
\* frame of AllFrames.
FewScans == Deliveries(FewFrames, kNormalLengthDefault)
AllScans ==
    Deliveries(CutFrames, kNormalLengthDefault)
    \cup { s \in Deliveries(AllFrames, kNormalLengthDefault) :
             Len(s) = kNormalLengthDefault }

(* ------------------------------ Init ---------------------------------- *)

\* Trill::Trill.  buffer_ is not initialised by the constructor.
Init ==
    /\ device_type_ = TRILL_DEVICE_NONE
    /\ firmware_version_ = 0
    /\ mode_ = UNSET
    /\ last_read_loc_ = UNSET
    /\ num_touches_ = 0
    /\ raw_bytes_left_ = 0
    /\ buffer_ \in { [i \in 0..(kNormalLengthDefault - 1) |-> b] : b \in {0, 255} }
    /\ rxBuffer = << >>
    /\ busLog = << >>
    /\ lastWrite = NoWrite
    /\ lastOp = "init"
    /\ lastArg = 0
    /\ lastRet = 0
    /\ resolved = 0

(* ----------------------------- helpers -------------------------------- *)

\* The history of the bus after a call whose transactions are log.
Bus(log) ==
    /\ busLog' = log
    /\ lastWrite' = SelectorAfter(log, lastWrite)

\* Trill::prepareForDataRead: the write it issues, if any.
prepareForDataRead ==
    IF last_read_loc_ # kOffsetData THEN << WriteEv(<< kOffsetData >>) >>
    ELSE << >>

\* Mutant of StoreReceived: the bytes past those received are cleared.
StoreReceived_clear(buf, data) ==
    [i \in DOMAIN buf |-> IF i < Len(data) THEN data[i + 1] ELSE 0]

\* read(), lines 71-73: buffer_[loc++] = Wire.read() while bytes are available.
StoreReceived(buf, data) ==
    [i \in DOMAIN buf |-> IF i < Len(data) THEN data[i + 1] ELSE buf[i]]

\* Mutant of IsSentinel: || in place of &&.
IsSentinel_either(buf, loc) == buf[2 * loc] = 255 \/ buf[2 * loc + 1] = 255

\* read(), line 84.
IsSentinel(buf, loc) == buf[2 * loc] = 255 /\ buf[2 * loc + 1] = 255

\* read(), lines 83-87: the first loc in 0..kMaxTouchNum-1 with 0xFFFF at
\* buffer_[2*loc], or kMaxTouchNum.
RECURSIVE ScanFrom(_, _)
ScanFrom(buf, loc) ==
    IF loc >= kMaxTouchNum THEN loc
    ELSE IF IsSentinel(buf, loc) THEN loc
    ELSE ScanFrom(buf, loc + 1)

FirstSentinel(buf) == ScanFrom(buf, 0)

\* Mutant of ReadTouches: a short read keeps the earlier count.
ReadTouches_keep(buf, loc) ==
    IF loc < kNormalLengthDefault THEN num_touches_ ELSE FirstSentinel(buf)

\* read(), lines 76-87: the touch count after loc bytes were stored in buf.
ReadTouches(buf, loc) ==
    IF loc < kNormalLengthDefault THEN 0 ELSE FirstSentinel(buf)

\* Mutant of IdentifyResult: a short response keeps the earlier identity.
IdentifyResult_keep(data) ==
    IF Len(data) < 2
    THEN [type |-> device_type_, version |-> firmware_version_, rx |-> data]
    ELSE [type |-> data[1], version |-> data[2], rx |-> << >>]

\* identify(), lines 50-60: the identity kept and the bytes left unread.
IdentifyResult(data) ==
    IF Len(data) < 2
    THEN [type |-> TRILL_DEVICE_NONE, version |-> 0, rx |-> data]
    ELSE [type |-> data[1], version |-> data[2], rx |-> << >>]

\* requestRawData(), lines 151-163.  length is assigned only when max_length
\* is 0xFF; otherwise it is read uninitialised, and garbage is its value.
ResolveLength(max_length, garbage) ==
    LET length == IF max_length = UNSET
                  THEN IF device_type_ = TRILL_DEVICE_1D THEN kRawLength1D
                       ELSE kRawLengthDefault
                  ELSE garbage
    IN  IF length > kRawLengthMax THEN kRawLengthMax ELSE length

\* Mutant of RawSplit: the whole length is left for the second request.
RawSplit_whole(length) ==
    IF length <= BUFFER_LENGTH
    THEN [req |-> length, left |-> 0]
    ELSE [req |-> BUFFER_LENGTH, left |-> length]

\* requestRawData(), lines 168-175: the size of the request and the bytes
\* left for a second one.
RawSplit(length) ==
    IF length <= BUFFER_LENGTH
    THEN [req |-> length, left |-> 0]
    ELSE [req |-> BUFFER_LENGTH, left |-> length - BUFFER_LENGTH]

\* Mutant of FetchCursor: the cursor is not moved.
FetchCursor_stale == last_read_loc_

\* rawDataRead(), line 194: the cursor after the remainder was selected.
FetchCursor == (kOffsetData + BUFFER_LENGTH) % 256

\* Mutant of FetchLeft: the count is not cleared.
FetchLeft_keep == raw_bytes_left_

\* rawDataRead(), line 198: the bytes left after the remainder was requested.
FetchLeft == 0

(* ----------------------------- accessors ------------------------------ *)

\* Mutant of numberOfTouches: no check of the mode.
numberOfTouches_nomode == num_touches_

\* Trill::numberOfTouches
numberOfTouches == IF mode_ # TRILL_MODE_NORMAL THEN 0 ELSE num_touches_

\* Trill::touchLocation.  int is taken wide enough for 255 * 256 + 255.
touchLocation(touch_num) ==
    IF mode_ # TRILL_MODE_NORMAL THEN 0 - 1
    ELSE IF touch_num >= kMaxTouchNum THEN 0 - 1
    ELSE buffer_[2 * touch_num] * 256 + buffer_[2 * touch_num + 1]

\* Trill::touchSize
touchSize(touch_num) ==
    IF mode_ # TRILL_MODE_NORMAL THEN 0 - 1
    ELSE IF touch_num >= kMaxTouchNum THEN 0 - 1
    ELSE buffer_[2 * touch_num + 2 * kMaxTouchNum] * 256
         + buffer_[2 * touch_num + 2 * kMaxTouchNum + 1]

\* Mutant of rawDataAvailable: an odd byte counts as an item.
rawDataAvailable_up == (Len(rxBuffer) + raw_bytes_left_ + 1) \div 2

\* Trill::rawDataAvailable
rawDataAvailable == (Len(rxBuffer) + raw_bytes_left_) \div 2

(* ------------------------------ inputs -------------------------------- *)

\* Arguments of setMode: normal scan and one other mode.
ModeArgs == { TRILL_MODE_NORMAL, TRILL_MODE_NORMAL + 1 }
\* Arguments of the one-byte configuration writes.
ParamArgs == { 2 }
\* Arguments of setMinimumTouchSize (16 bits).
SizeArgs == { 258 }
\* Arguments of requestRawData.
RawArgs == { UNSET, 3, 254 }
\* Values an uninitialised uint8_t may hold, among them the arguments.
Uninit == { 0, 3, BUFFER_LENGTH + 1, 254 }

(* ------------------------------ actions ------------------------------- *)

\* A configuration write: one command frame, no response.
Command(op, bytes) ==
    /\ Bus(<< WriteEv(bytes) >>)
    /\ last_read_loc_' = kOffsetCommand
    /\ lastOp' = op
    /\ lastRet' = 0
    /\ UNCHANGED << device_type_, firmware_version_, num_touches_,
                    raw_bytes_left_, buffer_, rxBuffer >>
    /\ resolved' = 0

\* Trill::identify
identify ==
    \E data \in Deliveries(IdReplies, 2) :
        LET r == IdentifyResult(data)
        IN  /\ Bus(<< WriteEv(<< kOffsetCommand, kCommandIdentify >>),
                      ReqEv(2, data) >>)
            /\ last_read_loc_' = kOffsetCommand
            /\ device_type_' = r.type
            /\ firmware_version_' = r.version
            /\ rxBuffer' = r.rx
            /\ lastOp' = "identify"
            /\ lastArg' = 0
            /\ lastRet' = r.type
            /\ UNCHANGED << mode_, num_touches_, raw_bytes_left_, buffer_ >>
            /\ resolved' = 0

\* Trill::begin: setMode(TRILL_MODE_NORMAL), then identify().
begin ==
    \E data \in Deliveries(IdReplies, 2) :
        LET r == IdentifyResult(data)
        IN  /\ Bus(<< WriteEv(<< kOffsetCommand, kCommandMode,
                                 TRILL_MODE_NORMAL >>),
                      WriteEv(<< kOffsetCommand, kCommandIdentify >>),
                      ReqEv(2, data) >>)
            /\ mode_' = TRILL_MODE_NORMAL
            /\ last_read_loc_' = kOffsetCommand
            /\ device_type_' = r.type
            /\ firmware_version_' = r.version
            /\ rxBuffer' = r.rx
            /\ lastOp' = "begin"
            /\ lastArg' = 0
            /\ lastRet' = r.type
            /\ UNCHANGED << num_touches_, raw_bytes_left_, buffer_ >>
            /\ resolved' = 0

\* Trill::read, the request of line 70 delivering one of scans.
read(scans) ==
    \E data \in scans :
        LET buf == StoreReceived(buffer_, data)
            loc == Len(data)
        IN  /\ Bus(prepareForDataRead
                   \o << ReqEv(kNormalLengthDefault, data) >>)
            /\ last_read_loc_' = kOffsetData
            /\ buffer_' = buf
            /\ rxBuffer' = << >>
            /\ num_touches_' = ReadTouches(buf, loc)
            /\ lastOp' = "read"
            /\ lastArg' = 0
            /\ lastRet' = (loc >= kNormalLengthDefault)
            /\ UNCHANGED << device_type_, firmware_version_, mode_,
                            raw_bytes_left_ >>
            /\ resolved' = 0

\* Trill::updateBaseline
updateBaseline ==
    /\ Command("updateBaseline", << kOffsetCommand, kCommandBaselineUpdate >>)
    /\ lastArg' = 0
    /\ UNCHANGED mode_

\* Trill::requestRawData
requestRawData ==
    \E max_length \in RawArgs :
    \E garbage \in (IF max_length = UNSET THEN { 0 } ELSE Uninit) :
        LET length == ResolveLength(max_length, garbage)
            split == RawSplit(length)
        IN  \E data \in Deliveries(RawData, split.req) :
                /\ Bus(prepareForDataRead \o << ReqEv(split.req, data) >>)
                /\ last_read_loc_' = kOffsetData
                /\ raw_bytes_left_' = split.left
                /\ rxBuffer' = data
                /\ resolved' = length
                /\ lastOp' = "requestRawData"
                /\ lastArg' = max_length
                /\ lastRet' = 0
                /\ UNCHANGED << device_type_, firmware_version_, mode_,
                                num_touches_, buffer_ >>

\* Trill::rawDataRead
rawDataRead ==
    LET fetch == Len(rxBuffer) < 2 /\ raw_bytes_left_ > 0
    IN  \E data \in (IF fetch THEN Deliveries(RawData, raw_bytes_left_)
                     ELSE { rxBuffer }) :
            /\ Bus(IF fetch
                   THEN << WriteEv(<< (kOffsetData + BUFFER_LENGTH) % 256 >>),
                           ReqEv(raw_bytes_left_, data) >>
                   ELSE << >>)
            /\ last_read_loc_' = IF fetch THEN FetchCursor ELSE last_read_loc_
            /\ raw_bytes_left_' = IF fetch THEN FetchLeft ELSE raw_bytes_left_
            /\ IF Len(data) < 2
               THEN rxBuffer' = data /\ lastRet' = 0
               ELSE /\ rxBuffer' = SubSeq(data, 3, Len(data))
                    /\ lastRet' = data[1] * 256 + data[2]
            /\ lastOp' = "rawDataRead"
            /\ lastArg' = 0
            /\ UNCHANGED << device_type_, firmware_version_, mode_,
                            num_touches_, buffer_ >>
            /\ resolved' = 0

\* Trill::setMode
setMode ==
    \E mode \in ModeArgs :
        /\ Command("setMode", << kOffsetCommand, kCommandMode, mode >>)
        /\ mode_' = mode
        /\ lastArg' = mode

\* Trill::setScanSettings
setScanSettings ==
    \E speed \in ParamArgs, num_bits \in ParamArgs :
        /\ Command("setScanSettings",
                   << kOffsetCommand, kCommandScanSettings, speed, num_bits >>)
        /\ lastArg' = 0
        /\ UNCHANGED mode_

\* Trill::setPrescaler
setPrescaler ==
    \E prescaler \in ParamArgs :
        /\ Command("setPrescaler",
                   << kOffsetCommand, kCommandPrescaler, prescaler >>)
        /\ lastArg' = 0
        /\ UNCHANGED mode_

\* Trill::setNoiseThreshold
setNoiseThreshold ==
    \E threshold \in ParamArgs :
        /\ Command("setNoiseThreshold",
                   << kOffsetCommand, kCommandNoiseThreshold, threshold >>)
        /\ lastArg' = 0
        /\ UNCHANGED mode_

\* Trill::setIDACValue
setIDACValue ==
    \E value \in ParamArgs :
        /\ Command("setIDACValue", << kOffsetCommand, kCommandIdac, value >>)
        /\ lastArg' = 0
        /\ UNCHANGED mode_

\* Trill::setMinimumTouchSize: the size is sent high byte first.
setMinimumTouchSize ==
    \E size \in SizeArgs :
        /\ Command("setMinimumTouchSize",
                   << kOffsetCommand, kCommandMinimumSize,
                      size \div 256, size % 256 >>)
        /\ lastArg' = 0
        /\ UNCHANGED mode_

(* -------------------------- specifications ---------------------------- *)

\* Every call of the driver, in any order.
Next ==
    \/ identify
    \/ begin
    \/ read(FewScans)
    \/ updateBaseline
    \/ requestRawData
    \/ rawDataRead
    \/ setMode
    \/ setScanSettings
    \/ setPrescaler
    \/ setNoiseThreshold
    \/ setIDACValue
    \/ setMinimumTouchSize

Spec == Init /\ [][Next]_vars

\* The scan side alone, the device delivering any of AllScans.
ScanNext ==
    \/ read(AllScans)
    \/ setMode
    \/ updateBaseline

SpecScan == Init /\ [][ScanNext]_vars

(* ------------------------------ claims -------------------------------- *)

\* The read request of the most recent call, and the bytes it delivered.
LastRequest == Requests(busLog)[Len(Requests(busLog))]
Delivered == LastRequest.bytes

\* The slots of the location region of buf that hold the pair 0xFF, 0xFF.
SentinelSlots(buf) ==
    { k \in 0..(kMaxTouchNum - 1) : buf[2 * k] = 255 /\ buf[2 * k + 1] = 255 }

\* Arguments of touchLocation and touchSize: every uint8_t.
TouchArgs == Byte

\* C1: in normal-scan mode, after a read() that received the full length,
\* numberOfTouches() is the smallest slot whose two location bytes are both
\* 0xFF, and kMaxTouchNum when no slot holds that pair; the buffer holds the
\* bytes the bus delivered.
C1_TouchCount ==
    (lastOp = "read" /\ lastRet = TRUE /\ mode_ = TRILL_MODE_NORMAL) =>
        /\ \A i \in DOMAIN buffer_ : buffer_[i] = Delivered[i + 1]
        /\ IF SentinelSlots(buffer_) = { }
           THEN numberOfTouches = kMaxTouchNum
           ELSE /\ numberOfTouches \in SentinelSlots(buffer_)
                /\ \A k \in SentinelSlots(buffer_) : numberOfTouches <= k

\* A full read whose slot 0 holds 0xFF, 0x00 and whose slot 1 holds the pair.
C1_Witness ==
    /\ lastOp = "read" /\ lastRet = TRUE /\ mode_ = TRILL_MODE_NORMAL
    /\ buffer_[0] = 255 /\ buffer_[1] = 0
    /\ buffer_[2] = 255 /\ buffer_[3] = 255
    /\ numberOfTouches = 1

\* C2: a read() that receives fewer bytes than kNormalLengthDefault returns
\* false and leaves the touch count 0, whatever it was; numberOfTouches()
\* then returns 0 until a read() succeeds.
C2_ShortRead ==
    /\ [](lastOp = "read" =>
            /\ lastRet = (Len(Delivered) >= kNormalLengthDefault)
            /\ (Len(Delivered) < kNormalLengthDefault =>
                    num_touches_ = 0 /\ numberOfTouches = 0))
    /\ [][(num_touches_ = 0 /\ ~(lastOp' = "read" /\ lastRet' = TRUE)) =>
            (num_touches_' = 0 /\ numberOfTouches' = 0)]_vars

\* A failed read in normal mode over a buffer that holds a full frame with
\* one touch.
C2_Witness ==
    /\ lastOp = "read" /\ lastRet = FALSE /\ mode_ = TRILL_MODE_NORMAL
    /\ FirstSentinel(buffer_) = 1
    /\ buffer_[kNormalLengthDefault - 1] = 1
    /\ num_touches_ = 0

\* C3: whenever the mode is not normal-scan, touchLocation(i) and
\* touchSize(i) are -1 for every i and numberOfTouches() is 0.
C3_NoDataOutsideNormal ==
    mode_ # TRILL_MODE_NORMAL =>
        /\ numberOfTouches = 0
        /\ \A i \in TouchArgs : touchLocation(i) = 0 - 1 /\ touchSize(i) = 0 - 1

\* A mode other than normal was set after a read counted a touch.
C3_Witness ==
    /\ mode_ # TRILL_MODE_NORMAL /\ mode_ # UNSET
    /\ num_touches_ > 0

\* C4: requestRawData issues exactly one read request: for the resolved
\* length and with no bytes left when it is at most BUFFER_LENGTH, and for
\* BUFFER_LENGTH with resolved - BUFFER_LENGTH bytes left otherwise.
C4_OneRequest ==
    lastOp = "requestRawData" =>
        /\ Len(Requests(busLog)) = 1
        /\ IF resolved <= BUFFER_LENGTH
           THEN LastRequest.n = resolved /\ raw_bytes_left_ = 0
           ELSE /\ LastRequest.n = BUFFER_LENGTH
                /\ raw_bytes_left_ = resolved - BUFFER_LENGTH

\* A request split in two whose first chunk arrived whole.
C4_Witness ==
    /\ lastOp = "requestRawData"
    /\ resolved > BUFFER_LENGTH
    /\ raw_bytes_left_ > 0
    /\ Len(rxBuffer) = BUFFER_LENGTH

\* The default raw length for the device type.
DefaultRawLength ==
    IF device_type_ = TRILL_DEVICE_1D THEN kRawLength1D ELSE kRawLengthDefault

\* C5: the length requestRawData resolves is the default of the device type
\* when max_length is 0xFF and max_length otherwise, clamped to
\* kRawLengthMax; the bytes requested in all are that length.
C5_ResolvedLength ==
    lastOp = "requestRawData" =>
        /\ resolved = Min(IF lastArg = UNSET THEN DefaultRawLength ELSE lastArg,
                          kRawLengthMax)
        /\ LastRequest.n + raw_bytes_left_ = resolved

\* C6, as claimed: bytesRemaining is nonzero only after the first request of
\* a requestRawData that was split; it is 0 initially, after the rawDataRead
\* that fetches the remainder, and after a read() or identify().
C6_ZeroAfterOtherRequests ==
    /\ (lastOp = "init" => raw_bytes_left_ = 0)
    /\ (lastOp = "requestRawData" =>
            (raw_bytes_left_ # 0 <=> resolved > BUFFER_LENGTH))
    /\ (lastOp = "rawDataRead" /\ Requests(busLog) # << >> =>
            raw_bytes_left_ = 0)
    /\ (lastOp \in { "read", "identify", "begin" } => raw_bytes_left_ = 0)

\* C6, amended: bytesRemaining is 0 initially and changes only in
\* requestRawData, which sets it to resolved - BUFFER_LENGTH when the
\* resolved length exceeds BUFFER_LENGTH and to 0 otherwise, and in the
\* rawDataRead that fetches the remainder, which sets it to 0; every other
\* call, read() and identify() among them, leaves it as it was.
C6_ChangedOnlyByRawCalls ==
    /\ raw_bytes_left_ = 0
    /\ [][/\ (lastOp' = "requestRawData" =>
                raw_bytes_left_' = IF resolved' > BUFFER_LENGTH
                                   THEN resolved' - BUFFER_LENGTH ELSE 0)
          /\ (lastOp' = "rawDataRead" =>
                IF Requests(busLog') # << >>
                THEN raw_bytes_left_ > 0 /\ raw_bytes_left_' = 0
                ELSE raw_bytes_left_' = raw_bytes_left_)
          /\ (lastOp' \notin { "requestRawData", "rawDataRead" } =>
                raw_bytes_left_' = raw_bytes_left_)]_vars

\* A read() or identify() made while the remainder is still to be fetched.
C6_Witness ==
    /\ lastOp \in { "read", "identify" }
    /\ raw_bytes_left_ > 0

\* C7, as claimed: a read() that fails leaves every byte of buffer_ as it
\* was.
C7_BufferUnchanged ==
    [][(lastOp' = "read" /\ lastRet' = FALSE) => buffer_' = buffer_]_vars

\* C7, amended: a read() that fails after k bytes has stored them in
\* buffer_[0..k-1] and leaves buffer_[k..] as it was.
C7_PrefixOverwritten ==
    [][(lastOp' = "read" /\ lastRet' = FALSE) =>
        /\ Len(Delivered') < kNormalLengthDefault
        /\ \A i \in DOMAIN buffer_ :
              buffer_'[i] = IF i < Len(Delivered') THEN Delivered'[i + 1]
                            ELSE buffer_[i]]_vars

\* A read that failed one byte short over a buffer without a sentinel: the
\* pair of slot 1 is the device's, the last byte is not.
C7_Witness ==
    /\ lastOp = "read" /\ lastRet = FALSE
    /\ Len(Delivered) = kNormalLengthDefault - 1
    /\ buffer_[2] = 255 /\ buffer_[3] = 255
    /\ buffer_[kNormalLengthDefault - 1] = 0

\* C8: identify() makes one write of the identify command and one request
\* of 2 bytes; with fewer than 2 bytes returned the identity is {none, 0}
\* and none is returned, otherwise the two bytes are the type and the
\* firmware version and the type is returned.
C8_Identify ==
    lastOp = "identify" =>
        /\ Len(busLog) = 2
        /\ busLog[1] = WriteEv(<< kOffsetCommand, kCommandIdentify >>)
        /\ busLog[2].k = "R" /\ busLog[2].n = 2
        /\ IF Len(Delivered) < 2
           THEN /\ device_type_ = TRILL_DEVICE_NONE
                /\ firmware_version_ = 0
                /\ lastRet = TRILL_DEVICE_NONE
           ELSE /\ device_type_ = Delivered[1]
                /\ firmware_version_ = Delivered[2]
                /\ lastRet = Delivered[1]

\* An identify() answered by a single byte.
C8_Witness ==
    /\ lastOp = "identify"
    /\ Delivered = << TRILL_DEVICE_1D >>
    /\ device_type_ = TRILL_DEVICE_NONE

\* C9: when read() or requestRawData() issues its read request, the most
\* recent write transaction began with kOffsetData; the call writes the
\* selector, once and before the request, exactly when the write
\* transaction before the call began with another byte or there was none.
C9_DataSelected ==
    /\ [](lastOp \in { "read", "requestRawData" } =>
            /\ lastWrite = kOffsetData
            /\ busLog[Len(busLog)].k = "R"
            /\ \A i \in 1..(Len(busLog) - 1) :
                  busLog[i] = WriteEv(<< kOffsetData >>))
    /\ [][lastOp' \in { "read", "requestRawData" } =>
            Len(Writes(busLog')) = IF lastWrite # kOffsetData THEN 1 ELSE 0]_vars

\* A requestRawData() that wrote no selector: it followed a read() that
\* counted a touch.
C9_Witness ==
    /\ lastOp = "requestRawData"
    /\ Writes(busLog) = << >>
    /\ num_touches_ > 0

\* C10: a rawDataRead() made while rawDataAvailable() > 0 makes
\* rawDataAvailable() smaller, however many bytes the bus delivers.
C10_DrainDecreases ==
    [][(lastOp' = "rawDataRead" /\ rawDataAvailable > 0) =>
        rawDataAvailable' < rawDataAvailable]_vars

\* A rawDataRead() whose remainder request was answered short.
C10_Witness ==
    /\ lastOp = "rawDataRead"
    /\ Requests(busLog) # << >>
    /\ Len(Delivered) < LastRequest.n
    /\ rawDataAvailable = 0

====
